---- MODULE Spec2Model ----
(***************************************************************************)
(* The intake bot of src/main.py: the per-user conversation state machine  *)
(* (aiogram FSM over MemoryStorage), the SQLite record store, and the      *)
(* handlers that tie them together.                                        *)
(*                                                                         *)
(* Message texts are sequences of one-character strings.  A handler is     *)
(* split where it awaits the network (message.answer, bot.send_message):   *)
(* the part from the router's state filter to the first such await is one  *)
(* step, and what follows the await is a continuation kept in `tasks'.     *)
(* dp.start_polling(bot) runs every update as its own task and the         *)
(* dispatcher is built without events isolation, so updates of one user    *)
(* may be dispatched while a continuation of that user is pending.         *)
(* Replies to the user are taken to be delivered; storage faults and a     *)
(* failing operator notification are inputs of the fault specification.    *)
(***************************************************************************)
EXTENDS Integers, Sequences, FiniteSets, Bags, TLC

\* ------------------------------------------------------------------ bounds
MaxInflight == 1   \* handler continuations pending at once

\* --------------------------------------------------------------- constants
MinProblemLen == 10
MinNameLen == 2
MinHandleLen == 3
MinAge == 10
MaxAge == 100

\* SQL NULL / a missing dict key, and a present value
NULL == {}
Some(v) == {v}
Val(s) == CHOOSE v \in s : TRUE

\* -------------------------------------------------------------------- text
Digits == {"0", "1", "2", "3", "4", "5", "6", "7", "8", "9"}

DigitVal(c) ==
  CASE c = "0" -> 0 [] c = "1" -> 1 [] c = "2" -> 2 [] c = "3" -> 3
    [] c = "4" -> 4 [] c = "5" -> 5 [] c = "6" -> 6 [] c = "7" -> 7
    [] c = "8" -> 8 [] c = "9" -> 9

\* str.strip(): leading and trailing whitespace removed
Strip(t) ==
  LET idx == {i \in 1..Len(t) : t[i] # " "}
  IN IF idx = {} THEN <<>>
     ELSE LET lo == CHOOSE i \in idx : \A j \in idx : i <= j
              hi == CHOOSE i \in idx : \A j \in idx : i >= j
          IN SubSeq(t, lo, hi)

\* the digits-and-underscores part of an integer literal accepted by int()
IntBodyOK(s) ==
  /\ Len(s) > 0
  /\ s[1] \in Digits
  /\ s[Len(s)] \in Digits
  /\ \A i \in 1..Len(s) : s[i] \in Digits \cup {"_"}
  /\ \A i \in 1..(Len(s) - 1) : ~(s[i] = "_" /\ s[i + 1] = "_")

RECURSIVE IntBodyVal(_, _)
IntBodyVal(s, acc) ==
  IF s = <<>> THEN acc
  ELSE IF Head(s) = "_" THEN IntBodyVal(Tail(s), acc)
       ELSE IntBodyVal(Tail(s), 10 * acc + DigitVal(Head(s)))

\* int(text): Some(n), or NULL where Python raises ValueError
ParseInt(t) ==
  LET s == Strip(t)
      signed == Len(s) > 0 /\ s[1] \in {"+", "-"}
      body == IF signed THEN Tail(s) ELSE s
  IN IF ~IntBodyOK(body) THEN NULL
     ELSE IF signed /\ s[1] = "-" THEN Some(0 - IntBodyVal(body, 0))
          ELSE Some(IntBodyVal(body, 0))

\* CallbackData
ANXIETY == "btn_anxiety"
RELATIONS == "btn_relations"
SELF == "btn_self"
CUSTOM == "btn_custom"
SIGNUP == "btn_signup"

\* PROBLEM_NAMES (the Russian display names, transliterated)
PROBLEM_NAMES ==
  [k \in {ANXIETY, RELATIONS, SELF, CUSTOM} |->
     CASE k = ANXIETY -> "Trevoga/Stress"
       [] k = RELATIONS -> "Otnosheniya"
       [] k = SELF -> "Vygoranie/Samoocenka"
       [] k = CUSTOM -> "Svoya problema"]

\* Form: the FSM states; NoState is the cleared state (None)
NoState == "none"
FormName == "Form:name"
FormAge == "Form:age"
FormCustomProblem == "Form:custom_problem"
FormPhone == "Form:phone"
FormStates == {FormName, FormAge, FormCustomProblem, FormPhone}


\* ------------------------------------------------------------------- state
VARIABLES
  pc,         \* "boot": main() has not run on_startup yet; "polling" after it
  ADMIN_ID,   \* the operator's user id, 0 when not configured
  fsmState,   \* MemoryStorage: user id -> FSM state
  fsmData,    \* MemoryStorage: user id -> the data dict (keys name, age)
  dbFile,     \* /data/psychology_bot.db: "absent", "empty" (a file with no users table), "ok"
  rows,       \* the rows of table users
  tasks,      \* bag of handler continuations waiting on the network
  last,       \* the step just taken (history, read by the properties only)
  events      \* what a scripted run has sent so far and the operator notifications
              \* attempted in it (history; stays empty in unscripted runs)

vars == <<pc, ADMIN_ID, fsmState, fsmData, dbFile, rows, tasks, last, events>>

\* every Telegram user id that may ever write to the bot
UserIds == {1, 2, 3}

\* message.from_user.username / full_name
Username(u) == "user"
FullName(u) == "Full Name"

\* the data dict: each key is absent (NULL) or holds a value
NoData == [name |-> NULL, age |-> NULL]

\* dict.get(key, default)
Get(d, default) == IF d = NULL THEN default ELSE Val(d)

\* data.get("name", "Не указано") in handle_phone_input
DefaultName == <<"N", "e", " ", "u", "k", "a", "z", "a", "n", "o">>

\* ------------------------------------------------------------ record store
\* A store call returns [file, rows, ret]: the database file and table after
\* the call, and the value the Python function returns.  `fault' is the
\* storage layer raising inside the call's try block.

RowsOf(u) == {r \in rows : r.user_id = u}

\* a storage exception inside a call that had opened the database:
\* sqlite3.connect creates the file when it is absent
Touched(file) == IF file = "absent" THEN "empty" ELSE file

\* init_database(): removes the file when it exists, then creates the table
init_database(file, tbl, fault) ==
  IF fault
    THEN {[file |-> file, rows |-> tbl, ret |-> FALSE],
          [file |-> "absent", rows |-> {}, ret |-> FALSE],
          [file |-> "empty", rows |-> {}, ret |-> FALSE]}
    ELSE {[file |-> "ok", rows |-> {}, ret |-> TRUE]}

\* user_exists(user_id)
user_exists(file, tbl, u, fault) ==
  IF fault \/ file # "ok"
    THEN [file |-> Touched(file), rows |-> tbl, ret |-> FALSE]
    ELSE [file |-> file, rows |-> tbl, ret |-> \E r \in tbl : r.user_id = u]

\* the row INSERT builds: every other column NULL, created_at CURRENT_TIMESTAMP
NewRow(u, ts) ==
  [user_id |-> u, username |-> Username(u), full_name |-> FullName(u),
   problem_segment |-> NULL, custom_problem |-> NULL,
   real_name |-> NULL, age |-> NULL, phone |-> NULL, created_at |-> ts]

\* INSERT OR IGNORE: user_id is the primary key
InsertOrIgnore(tbl, row) ==
  IF \E r \in tbl : r.user_id = row.user_id THEN tbl ELSE tbl \cup {row}

\* add_user(user_id, username, full_name), the clock reading ts
add_user(file, tbl, u, ts, fault) ==
  IF fault \/ file # "ok"
    THEN [file |-> Touched(file), rows |-> tbl, ret |-> FALSE]
    ELSE [file |-> file, rows |-> InsertOrIgnore(tbl, NewRow(u, ts)), ret |-> TRUE]

\* UPDATE users SET problem_segment = ?, custom_problem = ? WHERE user_id = ?
SetProblemAndCustom(tbl, u, segment, custom) ==
  {IF r.user_id = u
     THEN [r EXCEPT !.problem_segment = Some(segment), !.custom_problem = Some(custom)]
     ELSE r : r \in tbl}

\* UPDATE users SET problem_segment = ? WHERE user_id = ?
SetProblemOnly(tbl, u, segment) ==
  {IF r.user_id = u THEN [r EXCEPT !.problem_segment = Some(segment)] ELSE r : r \in tbl}

\* update_user_problem inserting the row when the user has none (an upsert)
update_user_problem_upsert(file, tbl, u, segment, custom, fault) ==
  IF fault \/ file # "ok"
    THEN [file |-> Touched(file), rows |-> tbl, ret |-> FALSE]
    ELSE LET all == InsertOrIgnore(tbl, NewRow(u, 0))
         IN IF custom # NULL /\ Val(custom) # <<>> /\ segment = CUSTOM
              THEN [file |-> file, ret |-> TRUE,
                    rows |-> SetProblemAndCustom(all, u, segment, Val(custom))]
              ELSE [file |-> file, ret |-> TRUE, rows |-> SetProblemOnly(all, u, segment)]

\* update_user_problem(user_id, problem_segment, custom_problem=None);
\* custom is NULL for None
update_user_problem(file, tbl, u, segment, custom, fault) ==
  IF fault \/ file # "ok"
    THEN [file |-> Touched(file), rows |-> tbl, ret |-> FALSE]
    ELSE IF custom # NULL /\ Val(custom) # <<>> /\ segment = CUSTOM
      THEN [file |-> file, ret |-> TRUE,
            rows |-> SetProblemAndCustom(tbl, u, segment, Val(custom))]
      ELSE [file |-> file, ret |-> TRUE, rows |-> SetProblemOnly(tbl, u, segment)]

\* the UPDATE binding phone and real_name to each other's column
SetContact_swapped(tbl, u, real_name, age, phone) ==
  {IF r.user_id = u
     THEN [r EXCEPT !.real_name = Some(phone), !.age = Some(age), !.phone = Some(real_name)]
     ELSE r : r \in tbl}

\* the UPDATE without its WHERE clause: every row takes the values
SetContact_every(tbl, u, real_name, age, phone) ==
  {[r EXCEPT !.real_name = Some(real_name), !.age = Some(age), !.phone = Some(phone)]
     : r \in tbl}

\* UPDATE users SET real_name = ?, age = ?, phone = ? WHERE user_id = ?
SetContact(tbl, u, real_name, age, phone) ==
  {IF r.user_id = u
     THEN [r EXCEPT !.real_name = Some(real_name), !.age = Some(age), !.phone = Some(phone)]
     ELSE r : r \in tbl}

\* update_user_contact_info writing the columns one statement at a time, each
\* committed on its own: a fault after the first leaves real_name alone updated
update_user_contact_info_partial(file, tbl, u, real_name, age, phone, fault) ==
  IF file # "ok"
    THEN [file |-> Touched(file), rows |-> tbl, ret |-> FALSE]
    ELSE IF fault
      THEN [file |-> file, ret |-> FALSE,
            rows |-> {IF r.user_id = u THEN [r EXCEPT !.real_name = Some(real_name)]
                      ELSE r : r \in tbl}]
      ELSE [file |-> file, ret |-> TRUE, rows |-> SetContact(tbl, u, real_name, age, phone)]

\* update_user_contact_info(user_id, real_name, age, phone)
update_user_contact_info(file, tbl, u, real_name, age, phone, fault) ==
  IF fault \/ file # "ok"
    THEN [file |-> Touched(file), rows |-> tbl, ret |-> FALSE]
    ELSE [file |-> file, ret |-> TRUE, rows |-> SetContact(tbl, u, real_name, age, phone)]

\* SELECT problem_segment, custom_problem FROM users WHERE user_id = ?
\* fetchone(): NULL for None, else the pair of the user's row
getProblem(tbl, u) ==
  IF \E r \in tbl : r.user_id = u
    THEN LET r == CHOOSE x \in tbl : x.user_id = u
         IN Some([problem_segment |-> r.problem_segment, custom_problem |-> r.custom_problem])
    ELSE NULL

\* SELECT problem_segment, COUNT(*) ... WHERE problem_segment IS NOT NULL
\* GROUP BY problem_segment: the pairs <<segment, count>>
ProblemGroups(tbl) ==
  {<<seg, Cardinality({r \in tbl : r.problem_segment = Some(seg)})>> :
     seg \in {Val(r.problem_segment) : r \in {x \in tbl : x.problem_segment # NULL}}}

\* ORDER BY COUNT(*) DESC: every list SQLite may return for the groups G; the
\* order of groups with equal counts is not determined
RECURSIVE ByCountDesc(_)
ByCountDesc(G) ==
  IF G = {} THEN {<<>>}
  ELSE UNION {{<<g>> \o rest : rest \in ByCountDesc(G \ {g})} :
                g \in {x \in G : \A y \in G : x[2] >= y[2]}}

\* stats["problems_distribution"]: the lists the third query of
\* get_user_stats may return
problems_distribution(tbl) == ByCountDesc(ProblemGroups(tbl))

\* LIMIT 5 of the fourth query
RecentLimit == 5

\* SELECT real_name, age, phone, problem_segment, custom_problem, created_at
RecentColumns(r) ==
  [real_name |-> r.real_name, age |-> r.age, phone |-> r.phone,
   problem_segment |-> r.problem_segment, custom_problem |-> r.custom_problem,
   created_at |-> r.created_at]

\* ORDER BY created_at DESC LIMIT n: every list SQLite may return for the rows
\* S; the order of rows with equal created_at is not determined
RECURSIVE ByCreatedDesc(_, _)
ByCreatedDesc(S, n) ==
  IF S = {} \/ n = 0 THEN {<<>>}
  ELSE UNION {{<<RecentColumns(r)>> \o rest : rest \in ByCreatedDesc(S \ {r}, n - 1)} :
                r \in {x \in S : \A y \in S : x.created_at >= y.created_at}}

\* the fourth query without its LIMIT
recent_requests_unlimited(tbl) ==
  ByCreatedDesc({r \in tbl : r.real_name # NULL}, Cardinality(tbl))

\* stats["recent_requests"]: the lists the fourth query of get_user_stats may
\* return (WHERE real_name IS NOT NULL ORDER BY created_at DESC LIMIT 5)
recent_requests(tbl) ==
  ByCreatedDesc({r \in tbl : r.real_name # NULL}, RecentLimit)

\* get_user_stats answering a storage exception with empty statistics
\* instead of None
get_user_stats_zeros(file, tbl, fault) ==
  IF fault \/ file # "ok"
    THEN [file |-> Touched(file),
          ret |-> Some([total_users |-> 0, users_with_requests |-> 0])]
    ELSE [file |-> file,
          ret |-> Some([total_users |-> Cardinality(tbl),
                        users_with_requests |->
                          Cardinality({r \in tbl : r.real_name # NULL /\ r.phone # NULL})])]

\* get_user_stats(): ret is NULL for None, else the counts of the stats dict;
\* the two lists of the dict are problems_distribution and recent_requests
\* (SELECT COUNT(*) FROM users; ... WHERE real_name IS NOT NULL AND phone IS NOT NULL)
get_user_stats(file, tbl, fault) ==
  IF fault \/ file # "ok"
    THEN [file |-> Touched(file), ret |-> NULL]
    ELSE [file |-> file,
          ret |-> Some([total_users |-> Cardinality(tbl),
                        users_with_requests |->
                          Cardinality({r \in tbl : r.real_name # NULL /\ r.phone # NULL})])]

\* the two error strings export_users_to_excel returns: its own text for an
\* empty table, and str(e) of an exception
EmptyError == "Baza dannyh pusta"
ExceptionError == "str(e)"

\* export_users_to_excel(): ret is the pair (filename, error); the file written
\* holds every row of the table
export_users_to_excel(file, tbl, fault) ==
  IF fault \/ file # "ok"
    THEN [file |-> Touched(file), ret |-> [filename |-> NULL, error |-> Some(ExceptionError)]]
    ELSE IF tbl = {}
      THEN [file |-> file, ret |-> [filename |-> NULL, error |-> Some(EmptyError)]]
      ELSE [file |-> file, ret |-> [filename |-> Some(tbl), error |-> NULL]]

\* ------------------------------------------------------------------ router
\* The three reply-keyboard labels; the router compares them for equality
\* only, so each label stands as one symbol.
GuideText == <<"[guide]">>
SignupText == <<"[signup]">>
AboutText == <<"[about]">>

StartCmd == <<"/", "s", "t", "a", "r", "t">>
ExportCmd == <<"/", "e", "x", "p", "o", "r", "t">>
StatsCmd == <<"/", "s", "t", "a", "t", "s">>
HelpCmd == <<"/", "h", "e", "l", "p">>
TestCmd == <<"/", "t", "e", "s", "t">>

\* @router.message handlers in registration order: the first whose filter
\* matches takes the message
Route(state, t) ==
  IF t = StartCmd THEN "command_start"
  ELSE IF t = GuideText THEN "handle_get_guide"
  ELSE IF t = SignupText THEN "handle_direct_signup"
  ELSE IF t = AboutText THEN "handle_about"
  ELSE IF state = FormCustomProblem THEN "handle_custom_problem_input"
  ELSE IF state = FormName THEN "handle_name_input"
  ELSE IF state = FormAge THEN "handle_age_input"
  ELSE IF state = FormPhone THEN "handle_phone_input"
  ELSE IF t = ExportCmd THEN "command_export"
  ELSE IF t = StatsCmd THEN "command_stats"
  ELSE IF t = HelpCmd THEN "command_help"
  ELSE IF t = TestCmd THEN "command_test"
  ELSE "handle_other_messages"

\* ------------------------------------------------------------------- tasks
\* a continuation: the handler's position and the locals it still reads
Task(u, at) ==
  [user |-> u, at |-> at, name |-> <<>>, age |-> 0, phone |-> <<>>, wrote |-> FALSE,
   sent |-> TRUE]

Inflight(u) == {k \in BagToSet(tasks) : k.user = u}

Spawn(k) == tasks (+) SetToBag({k})

Finish(k) == tasks (-) SetToBag({k})

Step(op, u, ok, wrote) ==
  [op |-> op, user |-> u, ok |-> ok, wrote |-> wrote, reply |-> <<>>]

\* FSMContext.set_state / update_data / clear
set_state(u, st) == fsmState' = [fsmState EXCEPT ![u] = st]

state_clear(u) ==
  /\ fsmState' = [fsmState EXCEPT ![u] = NoState]
  /\ fsmData' = [fsmData EXCEPT ![u] = NoData]

\* ------------------------------------------------------------ process steps
\* ts can be what CURRENT_TIMESTAMP reads now: the clock never runs backwards,
\* so it is not earlier than a stored row's created_at
ClockNow(tbl, ts) == \A r \in tbl : r.created_at <= ts

\* the state when main() is entered; ADMIN_ID is read from the environment
InitWith(admins) ==
  /\ pc = "boot"
  /\ ADMIN_ID \in admins
  /\ fsmState = [u \in UserIds |-> NoState]
  /\ fsmData = [u \in UserIds |-> NoData]
  /\ dbFile = "absent"
  /\ rows = {}
  /\ tasks = EmptyBag
  /\ last = Step("init", 0, TRUE, TRUE)
  /\ events = <<>>

\* main(): on_startup() runs init_database() before polling starts
on_startup(fault) ==
  /\ pc = "boot"
  /\ \E db \in init_database(dbFile, rows, fault) :
       /\ dbFile' = db.file
       /\ rows' = db.rows
       /\ last' = Step("on_startup", 0, TRUE, db.ret)
  /\ pc' = "polling"
  /\ UNCHANGED <<ADMIN_ID, fsmState, fsmData, tasks>>

\* the process is stopped and started again: storage = MemoryStorage() is
\* rebuilt empty, pending handler tasks are gone, the database file stays
Restart ==
  /\ pc = "polling"
  /\ pc' = "boot"
  /\ fsmState' = [u \in UserIds |-> NoState]
  /\ fsmData' = [u \in UserIds |-> NoData]
  /\ tasks' = EmptyBag
  /\ last' = Step("restart", 0, TRUE, TRUE)
  /\ UNCHANGED <<ADMIN_ID, dbFile, rows>>

\* command_start's schema check: the database after it.  The file is rebuilt
\* when it is absent, when a required column is missing, or when the check
\* itself raises.
EnsureSchema(file, tbl, fCheck, fInit) ==
  IF file = "absent" THEN init_database(file, tbl, fInit)
  ELSE IF fCheck \/ file = "empty" THEN init_database("absent", {}, fInit)
  ELSE {[file |-> file, rows |-> tbl, ret |-> TRUE]}

\* command_start writing the user's row anew on every start (INSERT OR REPLACE
\* without the user_exists test)
command_start_replace(u, ts, fCheck, fInit, fExists, fAdd) ==
  /\ pc = "polling"
  /\ Route(fsmState[u], StartCmd) = "command_start"
  /\ \E db \in EnsureSchema(dbFile, rows, fCheck, fInit) :
       /\ ClockNow(db.rows, ts)
       /\ dbFile' = db.file
       /\ rows' = {r \in db.rows : r.user_id # u} \cup {NewRow(u, ts)}
       /\ last' = Step("command_start", u, TRUE, TRUE)
  /\ UNCHANGED <<pc, ADMIN_ID, fsmState, fsmData, tasks>>

\* /start, the clock reading ts
command_start(u, ts, fCheck, fInit, fExists, fAdd) ==
  /\ pc = "polling"
  /\ Route(fsmState[u], StartCmd) = "command_start"
  /\ \E db \in EnsureSchema(dbFile, rows, fCheck, fInit) :
       LET ex == user_exists(db.file, db.rows, u, fExists)
       IN IF ex.ret
            THEN /\ dbFile' = ex.file
                 /\ rows' = ex.rows
                 /\ last' = Step("command_start", u, TRUE, TRUE)
            ELSE LET ad == add_user(ex.file, ex.rows, u, ts, fAdd)
                 IN /\ ClockNow(ex.rows, ts)
                    /\ dbFile' = ad.file
                    /\ rows' = ad.rows
                    /\ last' = Step("command_start", u, TRUE, ad.ret)
  /\ UNCHANGED <<pc, ADMIN_ID, fsmState, fsmData, tasks>>

\* menu texts and commands that touch neither the FSM nor, for a user who is
\* not the operator, the store: handle_get_guide, handle_direct_signup,
\* handle_about, command_help, command_test, handle_other_messages
StatelessHandlers ==
  {"handle_get_guide", "handle_direct_signup", "handle_about", "command_help",
   "command_test", "handle_other_messages"}

reply_only(u, t) ==
  /\ pc = "polling"
  /\ Route(fsmState[u], t) \in StatelessHandlers
  /\ last' = Step("reply_only", u, TRUE, TRUE)
  /\ UNCHANGED <<pc, ADMIN_ID, fsmState, fsmData, dbFile, rows, tasks>>

\* handle_problem_selection ending the dialog the user is in (state.clear()
\* after the write)
handle_problem_selection_clear(u, key, fault) ==
  /\ pc = "polling"
  /\ key \in {ANXIETY, RELATIONS, SELF}
  /\ LET db == update_user_problem(dbFile, rows, u, PROBLEM_NAMES[key], NULL, fault)
     IN /\ dbFile' = db.file
        /\ rows' = db.rows
        /\ last' = Step("handle_problem_selection", u, TRUE, db.ret)
  /\ state_clear(u)
  /\ UNCHANGED <<pc, ADMIN_ID, tasks>>

\* callback btn_anxiety / btn_relations / btn_self
handle_problem_selection(u, key, fault) ==
  /\ pc = "polling"
  /\ key \in {ANXIETY, RELATIONS, SELF}
  /\ LET db == update_user_problem(dbFile, rows, u, PROBLEM_NAMES[key], NULL, fault)
     IN /\ dbFile' = db.file
        /\ rows' = db.rows
        /\ last' = Step("handle_problem_selection", u, TRUE, db.ret)
  /\ UNCHANGED <<pc, ADMIN_ID, fsmState, fsmData, tasks>>

\* callback btn_custom: the prompt is sent first, set_state follows it
handle_custom_problem_start(u) ==
  /\ pc = "polling"
  /\ tasks' = Spawn(Task(u, "custom_problem_start"))
  /\ last' = Step("handle_custom_problem_start", u, TRUE, TRUE)
  /\ UNCHANGED <<pc, ADMIN_ID, fsmState, fsmData, dbFile, rows>>

handle_custom_problem_start_2(k) ==
  /\ k \in BagToSet(tasks)
  /\ k.at = "custom_problem_start"
  /\ set_state(k.user, FormCustomProblem)
  /\ tasks' = Finish(k)
  /\ last' = Step("handle_custom_problem_start_2", k.user, TRUE, TRUE)
  /\ UNCHANGED <<pc, ADMIN_ID, fsmData, dbFile, rows>>

\* free text in Form.custom_problem
handle_custom_problem_input(u, t, fault) ==
  /\ pc = "polling"
  /\ Route(fsmState[u], t) = "handle_custom_problem_input"
  /\ LET custom_problem == Strip(t)
     IN IF Len(custom_problem) < MinProblemLen
          THEN /\ last' = Step("handle_custom_problem_input", u, FALSE, FALSE)
               /\ UNCHANGED <<dbFile, rows, tasks>>
          ELSE /\ LET db == update_user_problem(dbFile, rows, u, CUSTOM,
                                                Some(custom_problem), fault)
                  IN /\ dbFile' = db.file
                     /\ rows' = db.rows
                     /\ last' = Step("handle_custom_problem_input", u, TRUE, db.ret)
                     /\ tasks' = Spawn([Task(u, "custom_problem_input")
                                          EXCEPT !.wrote = db.ret])
  /\ UNCHANGED <<pc, ADMIN_ID, fsmState, fsmData>>

handle_custom_problem_input_2(k) ==
  /\ k \in BagToSet(tasks)
  /\ k.at = "custom_problem_input"
  /\ state_clear(k.user)
  /\ tasks' = Finish(k)
  /\ last' = Step("handle_custom_problem_input_2", k.user, TRUE, k.wrote)
  /\ UNCHANGED <<pc, ADMIN_ID, dbFile, rows>>

\* callback btn_signup: the prompt is sent first, set_state follows it
handle_signup_start(u) ==
  /\ pc = "polling"
  /\ tasks' = Spawn(Task(u, "signup_start"))
  /\ last' = Step("handle_signup_start", u, TRUE, TRUE)
  /\ UNCHANGED <<pc, ADMIN_ID, fsmState, fsmData, dbFile, rows>>

handle_signup_start_2(k) ==
  /\ k \in BagToSet(tasks)
  /\ k.at = "signup_start"
  /\ set_state(k.user, FormName)
  /\ tasks' = Finish(k)
  /\ last' = Step("handle_signup_start_2", k.user, TRUE, TRUE)
  /\ UNCHANGED <<pc, ADMIN_ID, fsmData, dbFile, rows>>

\* free text in Form.name
handle_name_input(u, t) ==
  /\ pc = "polling"
  /\ Route(fsmState[u], t) = "handle_name_input"
  /\ LET name == Strip(t)
     IN IF Len(name) < MinNameLen
          THEN /\ last' = Step("handle_name_input", u, FALSE, FALSE)
               /\ UNCHANGED <<fsmData, tasks>>
          ELSE /\ fsmData' = [fsmData EXCEPT ![u].name = Some(name)]
               /\ tasks' = Spawn(Task(u, "name_input"))
               /\ last' = Step("handle_name_input", u, TRUE, FALSE)
  /\ UNCHANGED <<pc, ADMIN_ID, fsmState, dbFile, rows>>

handle_name_input_2(k) ==
  /\ k \in BagToSet(tasks)
  /\ k.at = "name_input"
  /\ set_state(k.user, FormAge)
  /\ tasks' = Finish(k)
  /\ last' = Step("handle_name_input_2", k.user, TRUE, FALSE)
  /\ UNCHANGED <<pc, ADMIN_ID, fsmData, dbFile, rows>>

\* handle_age_input without the early return after the re-prompt: a refused
\* age still moves the dialog on
handle_age_input_no_return(u, t) ==
  /\ pc = "polling"
  /\ Route(fsmState[u], t) = "handle_age_input"
  /\ LET age == ParseInt(Strip(t))
     IN IF age = NULL \/ Val(age) < MinAge \/ Val(age) > MaxAge
          THEN /\ last' = Step("handle_age_input", u, FALSE, FALSE)
               /\ UNCHANGED fsmData
          ELSE /\ fsmData' = [fsmData EXCEPT ![u].age = age]
               /\ last' = Step("handle_age_input", u, TRUE, FALSE)
  /\ tasks' = Spawn(Task(u, "age_input"))
  /\ UNCHANGED <<pc, ADMIN_ID, fsmState, dbFile, rows>>

\* handle_age_input with the range test off by one at both ends
handle_age_input_exclusive(u, t) ==
  /\ pc = "polling"
  /\ Route(fsmState[u], t) = "handle_age_input"
  /\ LET age == ParseInt(Strip(t))
     IN IF age = NULL \/ Val(age) <= MinAge \/ Val(age) >= MaxAge
          THEN /\ last' = Step("handle_age_input", u, FALSE, FALSE)
               /\ UNCHANGED <<fsmData, tasks>>
          ELSE /\ fsmData' = [fsmData EXCEPT ![u].age = age]
               /\ tasks' = Spawn(Task(u, "age_input"))
               /\ last' = Step("handle_age_input", u, TRUE, FALSE)
  /\ UNCHANGED <<pc, ADMIN_ID, fsmState, dbFile, rows>>

\* handle_age_input writing the accepted age to the user's row at once
\* (UPDATE users SET age = ?) next to holding it in the data dict
handle_age_input_commit(u, t) ==
  /\ pc = "polling"
  /\ Route(fsmState[u], t) = "handle_age_input"
  /\ LET age == ParseInt(Strip(t))
     IN IF age = NULL \/ Val(age) < MinAge \/ Val(age) > MaxAge
          THEN /\ last' = Step("handle_age_input", u, FALSE, FALSE)
               /\ UNCHANGED <<fsmData, tasks, rows>>
          ELSE /\ fsmData' = [fsmData EXCEPT ![u].age = age]
               /\ rows' = {IF r.user_id = u THEN [r EXCEPT !.age = age] ELSE r : r \in rows}
               /\ tasks' = Spawn(Task(u, "age_input"))
               /\ last' = Step("handle_age_input", u, TRUE, FALSE)
  /\ UNCHANGED <<pc, ADMIN_ID, fsmState, dbFile>>

\* free text in Form.age
handle_age_input(u, t) ==
  /\ pc = "polling"
  /\ Route(fsmState[u], t) = "handle_age_input"
  /\ LET age == ParseInt(Strip(t))
     IN IF age = NULL \/ Val(age) < MinAge \/ Val(age) > MaxAge
          THEN /\ last' = Step("handle_age_input", u, FALSE, FALSE)
               /\ UNCHANGED <<fsmData, tasks>>
          ELSE /\ fsmData' = [fsmData EXCEPT ![u].age = age]
               /\ tasks' = Spawn(Task(u, "age_input"))
               /\ last' = Step("handle_age_input", u, TRUE, FALSE)
  /\ UNCHANGED <<pc, ADMIN_ID, fsmState, dbFile, rows>>

handle_age_input_2(k) ==
  /\ k \in BagToSet(tasks)
  /\ k.at = "age_input"
  /\ set_state(k.user, FormPhone)
  /\ tasks' = Finish(k)
  /\ last' = Step("handle_age_input_2", k.user, TRUE, FALSE)
  /\ UNCHANGED <<pc, ADMIN_ID, fsmData, dbFile, rows>>

\* free text in Form.phone
handle_phone_input(u, t, fWrite) ==
  /\ pc = "polling"
  /\ Route(fsmState[u], t) = "handle_phone_input"
  /\ LET stripped == Strip(t)
     IN IF Len(stripped) < MinHandleLen
          THEN /\ last' = Step("handle_phone_input", u, FALSE, FALSE)
               /\ UNCHANGED <<dbFile, rows, tasks>>
          ELSE LET telegram_username ==
                     IF stripped[1] = "@" THEN Tail(stripped) ELSE stripped
                   name == Get(fsmData[u].name, DefaultName)
                   age == Get(fsmData[u].age, 0)
                   db == update_user_contact_info(Touched(dbFile), rows, u, name, age,
                                                  telegram_username, fWrite)
               IN /\ dbFile' = db.file
                  /\ rows' = db.rows
                  /\ tasks' = Spawn([Task(u, "phone_input") EXCEPT
                                       !.name = name, !.age = age,
                                       !.phone = telegram_username, !.wrote = db.ret])
                  /\ last' = Step("handle_phone_input", u, TRUE, db.ret)
  /\ UNCHANGED <<pc, ADMIN_ID, fsmState, fsmData>>

\* handle_phone_input notifying without the test of ADMIN_ID
handle_phone_input_2_always(k, sent) ==
  /\ k \in BagToSet(tasks)
  /\ k.at = "phone_input"
  /\ tasks' = Finish(k) (+) SetToBag({[k EXCEPT !.at = "phone_notify", !.sent = sent]})
  /\ last' = Step("notify", k.user, sent, k.wrote)
  /\ UNCHANGED <<pc, ADMIN_ID, fsmState, fsmData, dbFile, rows>>

\* after the confirmation to the user: the operator notification is sent when
\* ADMIN_ID is set (sent is FALSE when bot.send_message raises), else the
\* handler goes straight to state.clear()
handle_phone_input_2(k, sent) ==
  /\ k \in BagToSet(tasks)
  /\ k.at = "phone_input"
  /\ IF ADMIN_ID # 0
       THEN /\ tasks' = Finish(k) (+) SetToBag({[k EXCEPT !.at = "phone_notify",
                                                          !.sent = sent]})
            /\ last' = Step("notify", k.user, sent, k.wrote)
            /\ UNCHANGED <<fsmState, fsmData>>
       ELSE /\ state_clear(k.user)
            /\ tasks' = Finish(k)
            /\ last' = Step("handle_phone_input_3", k.user, TRUE, k.wrote)
  /\ UNCHANGED <<pc, ADMIN_ID, dbFile, rows>>

\* handle_phone_input with the send outside the try block: when
\* bot.send_message raises, the handler ends there and state.clear() is not run
handle_phone_input_3_raise(k) ==
  /\ k \in BagToSet(tasks)
  /\ k.at = "phone_notify"
  /\ IF k.sent THEN state_clear(k.user) ELSE UNCHANGED <<fsmState, fsmData>>
  /\ tasks' = Finish(k)
  /\ last' = Step("handle_phone_input_3", k.user, k.sent, k.wrote)
  /\ UNCHANGED <<pc, ADMIN_ID, dbFile, rows>>

\* after the notification (sent, or the exception logged): state.clear()
handle_phone_input_3(k) ==
  /\ k \in BagToSet(tasks)
  /\ k.at = "phone_notify"
  /\ state_clear(k.user)
  /\ tasks' = Finish(k)
  /\ last' = Step("handle_phone_input_3", k.user, k.sent, k.wrote)
  /\ UNCHANGED <<pc, ADMIN_ID, dbFile, rows>>

\* what a handler tells the operator (or a user who asked for an operator's
\* command)
Denied == <<"no rights">>
Reply(step, r) == [step EXCEPT !.reply = r]

\* /export: the gate, then the notice that the export starts
command_export(u, t) ==
  /\ pc = "polling"
  /\ Route(fsmState[u], t) = "command_export"
  /\ IF u # ADMIN_ID
       THEN /\ last' = Reply(Step("command_export", u, FALSE, FALSE), Denied)
            /\ UNCHANGED tasks
       ELSE /\ tasks' = Spawn(Task(u, "export"))
            /\ last' = Step("command_export", u, TRUE, FALSE)
  /\ UNCHANGED <<pc, ADMIN_ID, fsmState, fsmData, dbFile, rows>>

\* /export after the notice: export_users_to_excel(), then the reply.  sent is
\* FALSE when answer_document raises.
command_export_2(k, fExport, fStats, sent) ==
  /\ k \in BagToSet(tasks)
  /\ k.at = "export"
  /\ LET ex == export_users_to_excel(dbFile, rows, fExport)
         st == get_user_stats(ex.file, rows, fStats)
         step == Step("command_export_2", k.user, TRUE, FALSE)
     IN IF ex.ret.error # NULL /\ Val(ex.ret.error) # ""
          THEN /\ last' = Reply([step EXCEPT !.ok = FALSE],
                                <<"export error", Val(ex.ret.error)>>)
               /\ dbFile' = ex.file
          ELSE IF ex.ret.filename = NULL
            THEN /\ last' = Reply([step EXCEPT !.ok = FALSE], <<"database is empty">>)
                 /\ dbFile' = ex.file
            ELSE /\ dbFile' = st.file
                 /\ last' =
                      IF sent
                        THEN Reply(step,
                               <<"document", Val(ex.ret.filename),
                                 IF st.ret # NULL THEN Val(st.ret).total_users ELSE 0,
                                 IF st.ret # NULL THEN Val(st.ret).users_with_requests ELSE 0>>)
                        ELSE Reply([step EXCEPT !.ok = FALSE], <<"send error">>)
  /\ tasks' = Finish(k)
  /\ UNCHANGED <<pc, ADMIN_ID, fsmState, fsmData, rows>>

\* /stats without the comparison of the sender with ADMIN_ID
command_stats_open(u, t, fault) ==
  /\ pc = "polling"
  /\ Route(fsmState[u], t) = "command_stats"
  /\ LET st == get_user_stats(dbFile, rows, fault)
     IN /\ dbFile' = st.file
        /\ last' =
             IF st.ret = NULL
               THEN Reply(Step("command_stats", u, FALSE, FALSE), <<"stats failed">>)
               ELSE Reply(Step("command_stats", u, TRUE, FALSE),
                          <<"stats", Val(st.ret).total_users,
                            Val(st.ret).users_with_requests>>)
  /\ UNCHANGED <<pc, ADMIN_ID, fsmState, fsmData, rows, tasks>>

\* /stats
command_stats(u, t, fault) ==
  /\ pc = "polling"
  /\ Route(fsmState[u], t) = "command_stats"
  /\ IF u # ADMIN_ID
       THEN /\ last' = Reply(Step("command_stats", u, FALSE, FALSE), Denied)
            /\ UNCHANGED dbFile
       ELSE LET st == get_user_stats(dbFile, rows, fault)
            IN /\ dbFile' = st.file
               /\ last' =
                    IF st.ret = NULL
                      THEN Reply(Step("command_stats", u, FALSE, FALSE), <<"stats failed">>)
                      ELSE Reply(Step("command_stats", u, TRUE, FALSE),
                                 <<"stats", Val(st.ret).total_users,
                                   Val(st.ret).users_with_requests>>)
  /\ UNCHANGED <<pc, ADMIN_ID, fsmState, fsmData, rows, tasks>>

\* ----------------------------------------------------------- specifications
\* What the environment sends.  E.users are the users who write; E.problem,
\* E.name, E.age and E.handle are the free texts they send while the bot waits
\* for the problem, the name, the age and the handle; E.other are the texts
\* sent outside the dialog; E.clock are the readings of the clock; E.faults
\* says whether storage calls and sends to the operator may fail; E.inflight
\* is the number of handler continuations that may be pending at once.
Buttons == {ANXIETY, RELATIONS, SELF}

Commands == {ExportCmd, StatsCmd, HelpCmd, TestCmd, GuideText, SignupText, AboutText}

\* what the steps of the environment E keep to: no more than E.inflight
\* handler continuations are pending and, in an unscripted run, the history of
\* events stays as it is
Bounded(E) == BagCardinality(tasks') <= E.inflight

Within(E) == UNCHANGED events /\ Bounded(E)

\* the events of the signup dialog: the signup press and the three answers
DialogEvents(E) ==
  \/ \E u \in E.users : handle_signup_start(u) /\ Within(E)
  \/ \E u \in E.users, t \in E.name : handle_name_input(u, t) /\ Within(E)
  \/ \E u \in E.users, t \in E.age : handle_age_input(u, t) /\ Within(E)
  \/ \E u \in E.users, t \in E.handle, f \in E.faults :
       handle_phone_input(u, t, f) /\ Within(E)

\* every other event, the start and restart of the process, and the
\* continuations of the handlers
OtherSteps(E) ==
  \/ \E f \in E.faults : on_startup(f) /\ Within(E)
  \/ Restart /\ Within(E)
  \/ \E u \in E.users, ts \in E.clock, f1, f2, f3, f4 \in E.faults :
       command_start(u, ts, f1, f2, f3, f4) /\ Within(E)
  \/ \E u \in E.users, t \in E.other \cup Commands : reply_only(u, t) /\ Within(E)
  \/ \E u \in E.users : command_export(u, ExportCmd) /\ Within(E)
  \/ \E u \in E.users, f \in E.faults : command_stats(u, StatsCmd, f) /\ Within(E)
  \/ \E u \in E.users, key \in Buttons, f \in E.faults :
       handle_problem_selection(u, key, f) /\ Within(E)
  \/ \E u \in E.users : handle_custom_problem_start(u) /\ Within(E)
  \/ \E k \in BagToSet(tasks) : handle_custom_problem_start_2(k) /\ Within(E)
  \/ \E u \in E.users, t \in E.problem, f \in E.faults :
       handle_custom_problem_input(u, t, f) /\ Within(E)
  \/ \E k \in BagToSet(tasks) : handle_custom_problem_input_2(k) /\ Within(E)
  \/ \E k \in BagToSet(tasks) : handle_signup_start_2(k) /\ Within(E)
  \/ \E k \in BagToSet(tasks) : handle_name_input_2(k) /\ Within(E)
  \/ \E k \in BagToSet(tasks) : handle_age_input_2(k) /\ Within(E)
  \/ \E k \in BagToSet(tasks), f \in E.faults : handle_phone_input_2(k, ~f) /\ Within(E)
  \/ \E k \in BagToSet(tasks) : handle_phone_input_3(k) /\ Within(E)

NextOver(E) == OtherSteps(E) \/ DialogEvents(E)

\* n times the character c
Rep(c, n) == [i \in 1..n |-> c]

\* a text between blanks
Padded(t) == <<" ">> \o t \o <<" ">>

\* The texts sent at each prompt: around each field's limit, bare and between
\* blanks, and handles with and without "@".
ProblemTexts ==
  {Rep("x", 9), Rep("x", 10), Padded(Rep("x", 9)), Padded(Rep("x", 10))}

NameTexts == {<<"a">>, <<"a", "b">>, Padded(<<"a">>), Padded(<<"a", "b">>)}

HandleTexts ==
  {<<"a", "b">>, <<"a", "b", "c">>, <<"@", "a", "b">>, <<"@", "a", "b", "c">>,
   Padded(<<"a", "b">>), <<"@">>}

AgeTexts ==
  {<<"9">>, <<"1", "0">>, <<"1", "0", "0">>, <<"1", "0", "1">>, <<"a", "b", "c">>,
   <<"+", "1", "0">>, <<"-", "1", "0">>, <<"1", "_", "0">>, <<"0", "1", "0">>,
   <<" ", "1", "0", " ">>, <<"1", " ", "0">>, <<"1", "0", ".", "0">>, <<"_", "1", "0">>,
   <<"1", "_", "_", "0">>, <<" ">>}

\* Storage works; user 1 writes, the operator is user 2.
Dialog ==
  [users |-> {1}, problem |-> ProblemTexts, name |-> NameTexts,
   age |-> {<<"9">>, <<"1", "0">>}, handle |-> HandleTexts, other |-> {<<"9">>},
   clock |-> {0}, inflight |-> MaxInflight, faults |-> {FALSE}]

Next == NextOver(Dialog)

Spec == InitWith({2}) /\ [][Next]_vars

\* The age prompt answered with the texts of AgeTexts, every other prompt
\* with one valid text.
AgeDialog ==
  [users |-> {1}, problem |-> {Rep("x", 10)}, name |-> {<<"a", "b">>},
   age |-> AgeTexts, handle |-> {<<"a", "b", "c">>}, other |-> {<<"9">>},
   clock |-> {0}, inflight |-> MaxInflight, faults |-> {FALSE}]

NextAge == NextOver(AgeDialog)

SpecAge == InitWith({2}) /\ [][NextAge]_vars

\* Storage calls and the operator channel may fail.
Faulty ==
  [users |-> {1}, problem |-> {Rep("x", 10)}, name |-> {<<"a", "b">>},
   age |-> {<<"1", "0">>}, handle |-> {<<"a", "b", "c">>}, other |-> {<<"9">>},
   clock |-> {0}, inflight |-> MaxInflight, faults |-> BOOLEAN]

NextFault == NextOver(Faulty)

SpecFault == InitWith({2}) /\ [][NextFault]_vars

\* The operator's requests: E.operators are the users who send /export and
\* /stats (and nothing else).
OperatorNext(E) ==
  \/ \E u \in E.operators : command_export(u, ExportCmd) /\ Within(E)
  \/ \E k \in BagToSet(tasks), f1, f2, f3 \in E.faults :
       command_export_2(k, f1, f2, ~f3) /\ Within(E)
  \/ \E u \in E.operators, f \in E.faults : command_stats(u, StatsCmd, f) /\ Within(E)

\* User 1 goes through the dialog with one valid text at each prompt while
\* the operator, user 2, asks for exports and statistics.
Admin ==
  [users |-> {1}, operators |-> {2}, problem |-> {Rep("x", 10)}, name |-> {<<"a", "b">>},
   age |-> {<<"1", "0">>}, handle |-> {<<"a", "b", "c">>}, other |-> {<<"9">>},
   clock |-> {0}, inflight |-> MaxInflight, faults |-> {FALSE}]

NextAdmin == NextOver(Admin) \/ OperatorNext(Admin)

SpecAdmin == InitWith({2}) /\ [][NextAdmin]_vars

\* The same with storage calls and sends to the operator failing.
AdminFaulty == [Admin EXCEPT !.faults = BOOLEAN]

NextAdminFault == NextOver(AdminFaulty) \/ OperatorNext(AdminFaulty)

SpecAdminFault == InitWith({2}) /\ [][NextAdminFault]_vars

\* The dialog of user 1 with the operator configured (user 2) or not (0).
NextOptionalAdmin == NextOver(Admin)

SpecOptionalAdmin == InitWith({0, 2}) /\ [][NextOptionalAdmin]_vars

\* The dialog of user 1 with one valid text at each prompt, two handler
\* continuations allowed to be pending at once, and a history kept in events:
\* the names and ages accepted since the user last pressed signup.
Racing == [Admin EXCEPT !.inflight = MaxInflight + 1]

RecordedDialogEvents(E) ==
  \/ \E u \in E.users : handle_signup_start(u) /\ events' = <<>> /\ Bounded(E)
  \/ \E u \in E.users, t \in E.name :
       /\ handle_name_input(u, t)
       /\ events' = IF last'.ok THEN Append(events, <<"name", t>>) ELSE events
       /\ Bounded(E)
  \/ \E u \in E.users, t \in E.age :
       /\ handle_age_input(u, t)
       /\ events' = IF last'.ok THEN Append(events, <<"age", t>>) ELSE events
       /\ Bounded(E)
  \/ \E u \in E.users, t \in E.handle, f \in E.faults :
       handle_phone_input(u, t, f) /\ Within(E)

NextRace == OtherSteps(Racing) \/ RecordedDialogEvents(Racing)

SpecRace == InitWith({2}) /\ [][NextRace]_vars

\* Two users with one valid text at each prompt.  User 1 sends every kind of
\* event: start, a fixed category, the custom problem, the signup dialog to its
\* end, a free text in Idle.  User 3 sends start, presses signup and sends a
\* name.
Pair == [Admin EXCEPT !.users = {1, 3}]

NextPair ==
  \/ on_startup(FALSE) /\ Within(Pair)
  \/ \E u \in Pair.users : command_start(u, 0, FALSE, FALSE, FALSE, FALSE) /\ Within(Pair)
  \/ \E t \in Pair.other : reply_only(1, t) /\ Within(Pair)
  \/ handle_problem_selection(1, ANXIETY, FALSE) /\ Within(Pair)
  \/ handle_custom_problem_start(1) /\ Within(Pair)
  \/ \E t \in Pair.problem : handle_custom_problem_input(1, t, FALSE) /\ Within(Pair)
  \/ \E k \in BagToSet(tasks) : handle_custom_problem_start_2(k) /\ Within(Pair)
  \/ \E k \in BagToSet(tasks) : handle_custom_problem_input_2(k) /\ Within(Pair)
  \/ \E k \in BagToSet(tasks) : handle_signup_start_2(k) /\ Within(Pair)
  \/ \E k \in BagToSet(tasks) : handle_name_input_2(k) /\ Within(Pair)
  \/ \E k \in BagToSet(tasks) : handle_age_input_2(k) /\ Within(Pair)
  \/ \E k \in BagToSet(tasks) : handle_phone_input_2(k, TRUE) /\ Within(Pair)
  \/ \E k \in BagToSet(tasks) : handle_phone_input_3(k) /\ Within(Pair)
  \/ \E u \in Pair.users : handle_signup_start(u) /\ Within(Pair)
  \/ \E u \in Pair.users, t \in Pair.name : handle_name_input(u, t) /\ Within(Pair)
  \/ \E t \in Pair.age : handle_age_input(1, t) /\ Within(Pair)
  \/ \E t \in Pair.handle : handle_phone_input(1, t, FALSE) /\ Within(Pair)

SpecPair == InitWith({2}) /\ [][NextPair]_vars

\* The store calls of the handlers failing or not: user 1 sends start, chooses
\* a category or describes a problem and goes through the signup dialog, the
\* operator, user 2, asks for statistics and exports.  The schema check of
\* start, the startup and the sends to the operator do not fail here.
StoreFaulty == [Admin EXCEPT !.faults = BOOLEAN]

NextStoreFault ==
  \/ on_startup(FALSE) /\ Within(StoreFaulty)
  \/ \E u \in StoreFaulty.users, fExists, fAdd \in StoreFaulty.faults :
       command_start(u, 0, FALSE, FALSE, fExists, fAdd) /\ Within(StoreFaulty)
  \/ \E u \in StoreFaulty.users, f \in StoreFaulty.faults :
       handle_problem_selection(u, ANXIETY, f) /\ Within(StoreFaulty)
  \/ \E u \in StoreFaulty.users : handle_custom_problem_start(u) /\ Within(StoreFaulty)
  \/ \E u \in StoreFaulty.users, t \in StoreFaulty.problem, f \in StoreFaulty.faults :
       handle_custom_problem_input(u, t, f) /\ Within(StoreFaulty)
  \/ \E k \in BagToSet(tasks) : handle_custom_problem_start_2(k) /\ Within(StoreFaulty)
  \/ \E k \in BagToSet(tasks) : handle_custom_problem_input_2(k) /\ Within(StoreFaulty)
  \/ \E k \in BagToSet(tasks) : handle_signup_start_2(k) /\ Within(StoreFaulty)
  \/ \E k \in BagToSet(tasks) : handle_name_input_2(k) /\ Within(StoreFaulty)
  \/ \E k \in BagToSet(tasks) : handle_age_input_2(k) /\ Within(StoreFaulty)
  \/ \E k \in BagToSet(tasks) : handle_phone_input_2(k, TRUE) /\ Within(StoreFaulty)
  \/ \E k \in BagToSet(tasks) : handle_phone_input_3(k) /\ Within(StoreFaulty)
  \/ DialogEvents(StoreFaulty)
  \/ \E u \in StoreFaulty.operators : command_export(u, ExportCmd) /\ Within(StoreFaulty)
  \/ \E k \in BagToSet(tasks), fExport, fStats \in StoreFaulty.faults :
       command_export_2(k, fExport, fStats, TRUE) /\ Within(StoreFaulty)
  \/ \E u \in StoreFaulty.operators, f \in StoreFaulty.faults :
       command_stats(u, StatsCmd, f) /\ Within(StoreFaulty)

SpecStoreFault == InitWith({2}) /\ [][NextStoreFault]_vars

\* A run that begins with the bot polling and the store holding the records
\* of users 2 to 6, who wrote before: each of them has left a request or has
\* only started.  User 1 then starts, chooses a category and goes through the
\* signup dialog while the operator, user 2, asks for the statistics.
FilledUsers == 1..6

FilledRow(u, segment, custom, ts) ==
  [NewRow(u, ts) EXCEPT !.problem_segment = segment, !.custom_problem = custom,
                        !.real_name = Some(<<"a", "b">>), !.age = Some(10),
                        !.phone = Some(<<"a", "b", "c">>)]

FilledRows ==
  {FilledRow(2, Some(PROBLEM_NAMES[ANXIETY]), NULL, 0),
   FilledRow(3, Some(PROBLEM_NAMES[ANXIETY]), NULL, 1),
   FilledRow(4, Some(CUSTOM), Some(Rep("x", 10)), 1),
   FilledRow(5, Some(PROBLEM_NAMES[RELATIONS]), NULL, 2),
   FilledRow(6, NULL, NULL, 2)}

FilledStores ==
  {S \cup {NewRow(r.user_id, r.created_at) : r \in FilledRows \ S} : S \in SUBSET FilledRows}

InitFilled ==
  /\ pc = "polling"
  /\ ADMIN_ID = 2
  /\ fsmState = [u \in FilledUsers |-> NoState]
  /\ fsmData = [u \in FilledUsers |-> NoData]
  /\ dbFile = "ok"
  /\ rows \in FilledStores
  /\ tasks = EmptyBag
  /\ last = Step("init", 0, TRUE, TRUE)
  /\ events = <<>>

NextStats ==
  \/ command_start(1, 2, FALSE, FALSE, FALSE, FALSE) /\ Within(Admin)
  \/ \E key \in {ANXIETY, RELATIONS} : handle_problem_selection(1, key, FALSE) /\ Within(Admin)
  \/ DialogEvents(Admin)
  \/ \E k \in BagToSet(tasks) : handle_signup_start_2(k) /\ Within(Admin)
  \/ \E k \in BagToSet(tasks) : handle_name_input_2(k) /\ Within(Admin)
  \/ \E k \in BagToSet(tasks) : handle_age_input_2(k) /\ Within(Admin)
  \/ \E k \in BagToSet(tasks) : handle_phone_input_2(k, TRUE) /\ Within(Admin)
  \/ \E k \in BagToSet(tasks) : handle_phone_input_3(k) /\ Within(Admin)
  \/ command_stats(2, StatsCmd, FALSE) /\ Within(Admin)

SpecStats == InitFilled /\ [][NextStats]_vars

\* The dialog of user 1 in which, at every prompt, the user sends either one
\* valid text or a command or a main-menu text.
Commanding ==
  [Admin EXCEPT !.problem = {Rep("x", 10)} \cup Commands,
                !.name = {<<"a", "b">>} \cup Commands,
                !.age = {<<"1", "0">>} \cup Commands,
                !.handle = {<<"a", "b", "c">>} \cup Commands]

NextCommands == NextOver(Commanding)

SpecCommands == InitWith({2}) /\ [][NextCommands]_vars

\* A scripted run: user 1, new to the bot, sends start, presses the custom
\* problem button, sends a description, presses signup and sends a name, an
\* age and a handle that begins with "@"; each event is sent once the handler
\* of the one before has finished, and nothing else happens.
ScriptUser == 1

ScriptProblems == {Rep("x", 10), Padded(Rep("x", 10)), Rep("y", 11)}

ScriptNames == {<<"a", "b">>, Padded(<<"a", "b">>), <<"a", "b", "c">>}

ScriptAges == {<<"1", "0">>, <<"1", "0", "0">>, <<" ", "1", "0", " ">>}

ScriptHandles ==
  {<<"@", "a", "b", "c">>, Padded(<<"@", "a", "b", "c">>), <<"@", "a", "b", "c", "d">>}

\* the user's n-th event, e, is due
Due(n, e) ==
  /\ Len(events) = n - 1
  /\ tasks = EmptyBag
  /\ events' = Append(events, e)

NextScript ==
  \/ on_startup(FALSE) /\ UNCHANGED events
  \/ /\ Due(1, <<"start", <<>>>>)
     /\ command_start(ScriptUser, 0, FALSE, FALSE, FALSE, FALSE)
  \/ /\ Due(2, <<"custom", <<>>>>)
     /\ handle_custom_problem_start(ScriptUser)
  \/ \E t \in ScriptProblems :
       /\ Due(3, <<"problem", t>>)
       /\ handle_custom_problem_input(ScriptUser, t, FALSE)
  \/ /\ Due(4, <<"signup", <<>>>>)
     /\ handle_signup_start(ScriptUser)
  \/ \E t \in ScriptNames :
       /\ Due(5, <<"name", t>>)
       /\ handle_name_input(ScriptUser, t)
  \/ \E t \in ScriptAges :
       /\ Due(6, <<"age", t>>)
       /\ handle_age_input(ScriptUser, t)
  \/ \E t \in ScriptHandles :
       /\ Due(7, <<"handle", t>>)
       /\ handle_phone_input(ScriptUser, t, FALSE)
  \/ \E k \in BagToSet(tasks) :
       /\ \/ handle_custom_problem_start_2(k)
          \/ handle_custom_problem_input_2(k)
          \/ handle_signup_start_2(k)
          \/ handle_name_input_2(k)
          \/ handle_age_input_2(k)
          \/ handle_phone_input_3(k)
       /\ UNCHANGED events
  \/ \E k \in BagToSet(tasks) :
       /\ handle_phone_input_2(k, TRUE)
       /\ events' = IF last'.op = "notify" THEN Append(events, <<"notify", <<>>>>)
                    ELSE events

SpecScript == InitWith({2}) /\ [][NextScript]_vars

\* ------------------------------------------------------------------ claims
\* the handler steps that take a free text in one of the four entry states
InputOps ==
  {"handle_custom_problem_input", "handle_name_input", "handle_age_input",
   "handle_phone_input"}

\* C1: a failed validation attempt in CustomProblemEntry, NameEntry, AgeEntry
\* or ContactEntry leaves the user in that same entry state, leaves the
\* transient progress as it was and writes nothing to the store (hence so
\* does any run of consecutive failed attempts).
C1_FailedValidationChangesNothing ==
  [][\A u \in UserIds :
       (last'.op \in InputOps /\ last'.user = u /\ ~last'.ok)
         => /\ fsmState[u] \in FormStates
            /\ fsmState' = fsmState
            /\ fsmData' = fsmData
            /\ rows' = rows
            /\ dbFile' = dbFile
            /\ tasks' = tasks]_vars

\* C1 witness: an age was just refused and the user is still asked for it
C1_Witness ==
  /\ last.op = "handle_age_input"
  /\ ~last.ok
  /\ fsmState[last.user] = FormAge
  /\ fsmData[last.user].age = NULL

\* The integers the texts of AgeTexts denote, as Python's int() reads them;
\* the texts missing here make int() raise ValueError.
AgeDenoted ==
  {<<<<"9">>, 9>>, <<<<"1", "0">>, 10>>, <<<<"1", "0", "0">>, 100>>,
   <<<<"1", "0", "1">>, 101>>, <<<<"+", "1", "0">>, 10>>, <<<<"-", "1", "0">>, -10>>,
   <<<<"1", "_", "0">>, 10>>, <<<<"0", "1", "0">>, 10>>, <<<<" ", "1", "0", " ">>, 10>>}

\* C3: in AgeEntry a text is accepted (the age is held in the transient
\* progress and the dialog goes on to ContactEntry) if and only if it parses as
\* an integer n with 10 <= n <= 100; any other text changes nothing.
C3_AgeAcceptedIffIntegerInRange ==
  [][/\ \A u \in UserIds, t \in AgeTexts :
          (last'.op = "handle_age_input" /\ handle_age_input(u, t)) =>
            IF \E d \in AgeDenoted : d[1] = t /\ 10 <= d[2] /\ d[2] <= 100
              THEN /\ \E d \in AgeDenoted : d[1] = t /\ fsmData'[u].age = Some(d[2])
                   /\ fsmData'[u].name = fsmData[u].name
                   /\ tasks' = tasks (+) SetToBag({Task(u, "age_input")})
              ELSE /\ fsmData' = fsmData
                   /\ tasks' = tasks
                   /\ fsmState' = fsmState
     /\ \A k \in BagToSet(tasks) :
          (last'.op = "handle_age_input_2" /\ handle_age_input_2(k)) =>
            /\ fsmState' = [fsmState EXCEPT ![k.user] = FormPhone]
            /\ fsmData' = fsmData]_vars

\* C3 witness: the upper boundary 100 was accepted and the dialog has moved on
\* to ContactEntry
C3_Witness ==
  /\ last.op = "handle_age_input_2"
  /\ fsmState[last.user] = FormPhone
  /\ fsmData[last.user].age = Some(100)

\* the handle as the specification normalizes it before measuring it: the text
\* trimmed, then without one leading "@"
NormalizedHandle(t) ==
  LET s == Strip(t) IN IF s # <<>> /\ s[1] = "@" THEN Tail(s) ELSE s

\* C2: in ContactEntry a text is accepted (the contact is committed and the
\* handler goes on to end the dialog) if and only if it has at least 3
\* characters after trimming and after stripping one leading "@", and every
\* contact handle in the store has at least 3 characters.
C2_HandleAcceptedIffNormalizedMin3 ==
  [][\A u \in UserIds, t \in HandleTexts :
       (last'.op = "handle_phone_input" /\ handle_phone_input(u, t, FALSE)) =>
         /\ (tasks' # tasks) <=> (Len(NormalizedHandle(t)) >= 3)
         /\ \A r \in rows' : r.phone # NULL => Len(Val(r.phone)) >= 3]_vars

\* C4: in CustomProblemEntry a text is refused if and only if its trimmed
\* length is below 10; an accepted text leaves the user's record with
\* category Custom and the trimmed text, and the dialog then returns to Idle.
C4_CustomProblemStoredIffMin10 ==
  [][/\ \A u \in UserIds, t \in ProblemTexts :
          (last'.op = "handle_custom_problem_input"
             /\ handle_custom_problem_input(u, t, FALSE)) =>
            IF Len(Strip(t)) < 10
              THEN rows' = rows /\ tasks' = tasks /\ fsmState' = fsmState
              ELSE /\ \E r \in rows' :
                        /\ r.user_id = u
                        /\ r.problem_segment = Some(CUSTOM)
                        /\ r.custom_problem = Some(Strip(t))
                   /\ tasks' # tasks
     /\ \A k \in BagToSet(tasks) :
          (last'.op = "handle_custom_problem_input_2" /\ handle_custom_problem_input_2(k))
            => fsmState'[k.user] = NoState]_vars

\* C5: when the storage write of a valid ContactEntry or CustomProblemEntry
\* input fails, the handler does not go on: no operator notification is sent
\* and the dialog state is not cleared.  (last.wrote at these steps is what the
\* handler's storage write had returned.)
C5_FailedWriteDoesNotAdvance ==
  last.op \in {"notify", "handle_phone_input_3", "handle_custom_problem_input_2"}
    => last.wrote

\* C6: when the operator notification of a new lead goes out, the user's
\* record is in the store and complete with the notified name, age and handle.
C6_NotifiedLeadIsStored ==
  \A k \in BagToSet(tasks) :
    (last.op = "notify" /\ k.at = "phone_notify" /\ k.user = last.user)
      => \E r \in rows :
           /\ r.user_id = k.user
           /\ r.real_name = Some(k.name)
           /\ r.age = Some(k.age)
           /\ r.phone = Some(k.phone)

\* the steps that dispatch an update of a user to its handler
DispatchOps ==
  InputOps \cup {"command_start", "reply_only", "command_export", "command_stats",
                 "handle_problem_selection", "handle_custom_problem_start",
                 "handle_signup_start"}

\* C7: no update of a user is dispatched (its handler reading the user's
\* conversation state or writing the user's record) while an earlier handler
\* run of the same user has not finished its writes.
C7_OneHandlerRunPerUser ==
  [][\A u \in UserIds :
       (last'.op \in DispatchOps /\ last'.user = u) => Inflight(u) = {}]_vars

\* C8: after a start event the store holds exactly one record of the user,
\* and a record the user already had is still there with every field as it was.
C8_StartCreatesOnceAndKeepsRecord ==
  [][\A u \in UserIds :
       (last'.op = "command_start" /\ last'.user = u)
         => /\ Cardinality({r \in rows' : r.user_id = u}) = 1
            /\ \A r \in rows : r \in rows'
            /\ \A r \in rows' : r \in rows \/ (r = NewRow(u, r.created_at) /\ RowsOf(u) = {})
    ]_vars

\* C8 witness: start was sent by a user whose record already held a problem
\* and contact details, and the record still holds them
C8_Witness ==
  /\ last.op = "command_start"
  /\ \E r \in rows :
       /\ r.user_id = last.user
       /\ r.problem_segment # NULL
       /\ r.phone # NULL

\* C9: ensureSchema on a store whose schema is complete, at process startup
\* as on a start event, leaves every record as it was.
C9_EnsureSchemaKeepsRecords ==
  [][(last'.op \in {"on_startup", "command_start"} /\ dbFile = "ok")
       => \A r \in rows : r \in rows']_vars

\* C10: a record has a custom problem text only if its category is Custom.
C10_CustomTextOnlyWithCustomCategory ==
  \A r \in rows : r.custom_problem # NULL => r.problem_segment = Some(CUSTOM)

\* the three contact columns of a row are all NULL or all set
ContactAllOrNothing(r) ==
  \/ r.real_name = NULL /\ r.age = NULL /\ r.phone = NULL
  \/ r.real_name # NULL /\ r.age # NULL /\ r.phone # NULL

\* C11: setContactInfo is all-or-nothing: after every step, a failed or
\* faulted write included, each record has name, age and handle all unset or
\* all set, and a contact write that failed leaves the table as it was.
C11_ContactWriteAllOrNothing ==
  [][/\ \A r \in rows' : ContactAllOrNothing(r)
     /\ (last'.op = "handle_phone_input" /\ last'.ok /\ ~last'.wrote) => rows' = rows
    ]_vars

\* C11 witness: the contact write of a user who has a record just failed
C11_Witness ==
  /\ last.op = "handle_phone_input"
  /\ last.ok
  /\ ~last.wrote
  /\ dbFile = "ok"
  /\ RowsOf(last.user) # {}

\* what get_user_stats() returns on table tbl when storage works
StatsOf(tbl) == Val(get_user_stats("ok", tbl, FALSE).ret)

\* C12: aggregateStats().totalUsers is the number of users for whom
\* createIfAbsent created a record (it starts at 0, grows by one with each
\* record a start event creates and changes at no other step), and
\* completeRecords is the number of records with name, age and handle all set.
C12_StatsCountCreatedAndComplete ==
  [][/\ StatsOf(rows').total_users =
          StatsOf(rows).total_users
            + (IF last'.op = "command_start" /\ RowsOf(last'.user) = {}
                    /\ \E r \in rows' : r.user_id = last'.user
                 THEN 1 ELSE 0)
     /\ StatsOf(rows').users_with_requests =
          Cardinality({r \in rows' : r.real_name # NULL /\ r.age # NULL /\ r.phone # NULL})
    ]_vars

\* the script has run to its end: all seven events sent, every handler done
ScriptDone == Len(events) >= 7 /\ tasks = EmptyBag

\* the integers the texts of ScriptAges denote
ScriptAge(t) ==
  CASE t = <<"1", "0">> -> 10
    [] t = <<"1", "0", "0">> -> 100
    [] t = <<" ", "1", "0", " ">> -> 10

\* C13: end to end.  A new user who sends start, chooses the custom problem,
\* sends a description of trimmed length >= 10, presses signup and sends a
\* valid name, a valid age and a valid handle with a leading "@" ends in Idle
\* with a record of category Custom holding the description, the name, the age
\* and the handle without "@"; exactly one operator notification was
\* attempted and the statistics count one complete record.  On the way every
\* event is accepted: the dialog stands where the next event takes it up.
C13_EndToEnd ==
  /\ (Len(events) = 2 /\ tasks = EmptyBag) => fsmState[ScriptUser] = FormCustomProblem
  /\ (Len(events) = 3 /\ tasks = EmptyBag) => fsmState[ScriptUser] = NoState
  /\ (Len(events) = 4 /\ tasks = EmptyBag) => fsmState[ScriptUser] = FormName
  /\ (Len(events) = 5 /\ tasks = EmptyBag) => fsmState[ScriptUser] = FormAge
  /\ (Len(events) = 6 /\ tasks = EmptyBag) => fsmState[ScriptUser] = FormPhone
  /\ ScriptDone =>
       /\ fsmState[ScriptUser] = NoState
       /\ fsmData[ScriptUser] = NoData
       /\ rows = {[NewRow(ScriptUser, 0) EXCEPT
                     !.problem_segment = Some(CUSTOM),
                     !.custom_problem = Some(Strip(events[3][2])),
                     !.real_name = Some(Strip(events[5][2])),
                     !.age = Some(ScriptAge(events[6][2])),
                     !.phone = Some(Tail(Strip(events[7][2])))]}
       /\ Cardinality({i \in DOMAIN events : events[i][1] = "notify"}) = 1
       /\ StatsOf(rows).users_with_requests = 1

\* C13 witness: the script has run to its end with a description, a name, an
\* age and a handle that were sent between blanks
C13_Witness ==
  /\ ScriptDone
  /\ events[3][2] = Padded(Rep("x", 10))
  /\ events[5][2] = Padded(<<"a", "b">>)
  /\ events[6][2] = <<" ", "1", "0", " ">>
  /\ events[7][2] = Padded(<<"@", "a", "b", "c">>)
  /\ \E r \in rows : r.phone = Some(<<"a", "b", "c">>)

\* the place of an entry state in the intake order name, age, handle
FieldRank(st) ==
  CASE st = FormName -> 1 [] st = FormAge -> 2 [] st = FormPhone -> 3 [] OTHER -> 0

C15_FailedNotificationKeepsCommit ==
  [][/\ (last'.op = "notify" /\ ~last'.ok)
          => /\ rows' = rows
             /\ dbFile' = dbFile
             /\ \E k \in BagToSet(tasks') :
                  k.user = last'.user /\ k.at = "phone_notify" /\ ~k.sent
     /\ (last'.op = "handle_phone_input_3" /\ ~last'.ok)
          => /\ rows' = rows
             /\ dbFile' = dbFile
             /\ fsmState'[last'.user] = NoState
             /\ fsmData'[last'.user] = NoData
    ]_vars

\* C15 witness: the handler has ended after a notification that failed; the
\* contact it had committed is in the store and the user is in Idle
C15_Witness ==
  /\ last.op = "handle_phone_input_3"
  /\ ~last.ok
  /\ last.wrote
  /\ fsmState[last.user] = NoState
  /\ \E r \in rows : r.user_id = last.user /\ r.phone = Some(<<"a", "b", "c">>)

\* C16: with no operator configured no notification is ever attempted, a
\* valid handle is still committed to the user's record, and the handler's
\* last step returns the dialog to Idle.
C16_NoOperatorNoNotification ==
  [][ADMIN_ID = 0 =>
       /\ last'.op # "notify"
       /\ \A k \in BagToSet(tasks') : k.at # "phone_notify"
       /\ (last'.op = "handle_phone_input" /\ last'.ok)
            => /\ \E k \in BagToSet(tasks') : k.user = last'.user /\ k.at = "phone_input"
               /\ \A r \in RowsOf(last'.user) :
                    [r EXCEPT !.real_name = Some(Get(fsmData[r.user_id].name, DefaultName)),
                              !.age = Some(Get(fsmData[r.user_id].age, 0)),
                              !.phone = Some(<<"a", "b", "c">>)] \in rows'
       /\ (last'.op = "handle_phone_input_3")
            => fsmState'[last'.user] = NoState /\ fsmData'[last'.user] = NoData
    ]_vars

\* C16 witness: no operator is configured, the handler has ended after
\* committing the handle, and the user is in Idle
C16_Witness ==
  /\ ADMIN_ID = 0
  /\ last.op = "handle_phone_input_3"
  /\ last.wrote
  /\ fsmState[last.user] = NoState
  /\ \E r \in rows : r.user_id = last.user /\ r.phone = Some(<<"a", "b", "c">>)

\* C17: /export and /stats from a user who is not the operator are refused:
\* the reply is the refusal, nothing is started and the store is not touched;
\* every export run and every statistics or export reply belongs to the
\* operator.
C17_OnlyOperatorPassesGate ==
  [][/\ (last'.op \in {"command_export", "command_stats"} /\ last'.user # ADMIN_ID)
          => /\ last'.reply = Denied
             /\ ~last'.ok
             /\ tasks' = tasks
             /\ dbFile' = dbFile
             /\ rows' = rows
     /\ (last'.op \in {"command_export", "command_stats", "command_export_2"}
           /\ last'.reply # Denied)
          => last'.user = ADMIN_ID
     /\ \A k \in BagToSet(tasks') : k.at = "export" => k.user = ADMIN_ID
    ]_vars

\* C17 witness: a user who is not the operator has just been refused an
\* export of a store that holds a record
C17_Witness ==
  /\ last.op = "command_export"
  /\ last.user # ADMIN_ID
  /\ last.reply = Denied
  /\ rows # {}

\* C18: an export of a store with no records ends with the empty signal (the
\* operator is told the store is empty, not that the export failed) and
\* sends no document.
C18_EmptyExportIsNotAFailure ==
  [][(last'.op = "command_export_2" /\ dbFile = "ok" /\ rows = {})
       => last'.reply = <<"database is empty">>]_vars

\* the values problem_segment takes for the four categories
Categories == {PROBLEM_NAMES[ANXIETY], PROBLEM_NAMES[RELATIONS], PROBLEM_NAMES[SELF], CUSTOM}

\* last write wins over the closed enumeration: every stored category is unset
\* or one of the four, a selection that was written leaves the user's record
\* with the selected category, and no other step changes a stored category
LastProblemWins ==
  /\ \A r \in rows' : r.problem_segment = NULL \/ Val(r.problem_segment) \in Categories
  /\ \A u \in UserIds, key \in Buttons :
       (last'.op = "handle_problem_selection" /\ handle_problem_selection(u, key, FALSE))
         => \A r \in rows' : r.user_id = u => r.problem_segment = Some(PROBLEM_NAMES[key])
  /\ \A u \in UserIds :
       (last'.op = "handle_custom_problem_input" /\ last'.user = u /\ last'.ok)
         => \A r \in rows' : r.user_id = u => r.problem_segment = Some(CUSTOM)
  /\ last'.op \notin {"handle_problem_selection", "handle_custom_problem_input"}
       => \A r \in rows' :
            r.problem_segment # NULL
              => \E q \in rows : q.user_id = r.user_id /\ q.problem_segment = r.problem_segment

\* C19: setProblem is last-write-wins over the closed enumeration, and
\* getProblem returns a custom text only together with the category Custom.
C19_LastProblemWinsAndIsRead ==
  [][/\ LastProblemWins
     /\ \A u \in UserIds :
          LET got == getProblem(rows', u)
          IN (got # NULL /\ Val(got).custom_problem # NULL)
               => Val(got).problem_segment = Some(CUSTOM)
    ]_vars

\* C20: the intake order is enforced.  A user enters ContactEntry only at the
\* end of an accepted age, AgeEntry only at the end of an accepted name and
\* NameEntry only at the end of a signup press; and a contact is committed
\* only after a name and then an age were accepted since the latest signup
\* press.
C20_IntakeOrderEnforced ==
  [][\A u \in UserIds :
       /\ (fsmState'[u] = FormPhone /\ fsmState[u] # FormPhone)
            => last'.op = "handle_age_input_2"
       /\ (fsmState'[u] = FormAge /\ fsmState[u] # FormAge)
            => last'.op = "handle_name_input_2"
       /\ (fsmState'[u] = FormName /\ fsmState[u] # FormName)
            => last'.op = "handle_signup_start_2"
       /\ (last'.op = "handle_phone_input" /\ last'.user = u /\ last'.ok)
            => \E i, j \in DOMAIN events :
                 i < j /\ events[i][1] = "name" /\ events[j][1] = "age"
    ]_vars

\* C21: selecting one of the three fixed categories, whatever the user's
\* conversation state, writes the category to the user's record within the
\* handler's first step (each record of the user then holds the selected
\* category, every other column and every other record is as before) and
\* leaves the conversation state, the transient progress and the pending
\* handler continuations as they were.
C21_FixedCategoryWrittenDialogKept ==
  [][\A u \in UserIds, key \in Buttons :
       (last'.op = "handle_problem_selection" /\ handle_problem_selection(u, key, FALSE))
         => /\ rows' = {IF r.user_id = u
                          THEN [r EXCEPT !.problem_segment = Some(PROBLEM_NAMES[key])]
                          ELSE r : r \in rows}
            /\ fsmState' = fsmState
            /\ fsmData' = fsmData
            /\ tasks' = tasks
    ]_vars

\* C21 witness: a user with a record chose a fixed category while asked for
\* the age, the name already held; the record has the category and the user
\* is still asked for the age
C21_Witness ==
  /\ last.op = "handle_problem_selection"
  /\ fsmState[last.user] = FormAge
  /\ fsmData[last.user].name # NULL
  /\ \E r \in rows :
       r.user_id = last.user /\ r.problem_segment = Some(PROBLEM_NAMES[RELATIONS])

\* the three contact columns of a row
Contact(r) == <<r.real_name, r.age, r.phone>>

\* the steps of the intake dialog before the handle: the signup press, the
\* name and the age, with their continuations
HoldingOps ==
  {"handle_signup_start", "handle_signup_start_2", "handle_name_input",
   "handle_name_input_2", "handle_age_input", "handle_age_input_2"}

\* C22: accepted names and ages are held in the transient progress only.  The
\* signup press, a name and an age, accepted or refused, and a refused handle
\* leave the store as it is; the contact fields of a record change only at an
\* accepted handle of that user, sent in ContactEntry; and a record is created
\* with its contact fields unset.  So a user who stops after AgeEntry leaves
\* the contact fields as they were before the pass.
C22_ContactHeldUntilHandleAccepted ==
  [][/\ last'.op \in HoldingOps => (rows' = rows /\ dbFile' = dbFile)
     /\ (last'.op = "handle_phone_input" /\ ~last'.ok) => (rows' = rows /\ dbFile' = dbFile)
     /\ \A q \in rows' :
          IF \E r \in rows : r.user_id = q.user_id
            THEN \/ \E r \in rows : r.user_id = q.user_id /\ Contact(r) = Contact(q)
                 \/ /\ last'.op = "handle_phone_input"
                    /\ last'.ok
                    /\ last'.user = q.user_id
                    /\ fsmState[q.user_id] = FormPhone
            ELSE Contact(q) = <<NULL, NULL, NULL>>
    ]_vars

\* C22 witness: a name and an age were accepted and the user, who has a
\* record, is asked for the handle; the record's contact fields are unset
C22_Witness ==
  /\ last.op = "handle_age_input_2"
  /\ fsmState[last.user] = FormPhone
  /\ fsmData[last.user].name # NULL
  /\ fsmData[last.user].age # NULL
  /\ \E r \in rows : r.user_id = last.user /\ Contact(r) = <<NULL, NULL, NULL>>

\* C23: a restart of the process returns every user to Idle and drops the
\* transient progress, the restart and the startup that follows it leave every
\* record of the store as it was, and a free text a user sends in Idle is
\* answered by the fallback handler, which changes neither the conversation
\* state, the transient progress nor the store.
C23_RestartResetsDialogKeepsStore ==
  [][/\ last'.op = "restart"
          => /\ \A u \in UserIds : fsmState'[u] = NoState /\ fsmData'[u] = NoData
             /\ tasks' = EmptyBag
     /\ last'.op \in {"restart", "on_startup"} => \A r \in rows : r \in rows'
     /\ \A u \in UserIds, t \in ProblemTexts \cup NameTexts \cup HandleTexts :
          (last'.op = "reply_only" /\ fsmState[u] = NoState /\ reply_only(u, t))
            => /\ Route(fsmState[u], t) = "handle_other_messages"
               /\ fsmState' = fsmState
               /\ fsmData' = fsmData
               /\ rows' = rows
    ]_vars

\* C24: users are isolated from each other.  With the store's schema intact,
\* every step taken for an event of one user (the dispatch of the event and
\* the continuations of its handler) leaves every other user's conversation
\* state, transient progress, pending continuations and stored record as they
\* were.
C24_UsersIsolated ==
  [][\A a, b \in UserIds :
       (a # b /\ last'.user = a /\ dbFile = "ok")
         => /\ fsmState'[b] = fsmState[b]
            /\ fsmData'[b] = fsmData[b]
            /\ {r \in rows' : r.user_id = b} = RowsOf(b)
            /\ {k \in BagToSet(tasks') : k.user = b} = Inflight(b)
    ]_vars

\* C24 witness: user 1's handle was just committed while user 3, who has a
\* record, is asked for the age with a name held; user 3's record has no
\* contact fields
C24_Witness ==
  /\ last.op = "handle_phone_input"
  /\ last.user = 1
  /\ last.wrote
  /\ \E r \in rows : r.user_id = 1 /\ r.phone # NULL
  /\ fsmState[3] = FormAge
  /\ fsmData[3].name # NULL
  /\ \E r \in rows : r.user_id = 3 /\ Contact(r) = <<NULL, NULL, NULL>>

\* C25: under a storage fault every store operation returns its failure value
\* to the caller and leaves the records as they are.  On the store of every
\* reachable state: exists and createIfAbsent, setProblem and setContactInfo
\* return False with the table unchanged, aggregateStats returns None and
\* exportAll returns no file and the error text.  In the handlers: a write that
\* returned False has changed no record, and the operator is told that the
\* statistics or the export failed.
C25_FaultedStoreCallFailsAndKeeps ==
  [][/\ \A u \in UserIds :
          LET ex == user_exists(dbFile, rows, u, TRUE)
              ad == add_user(dbFile, rows, u, 0, TRUE)
              pr == update_user_problem(dbFile, rows, u, PROBLEM_NAMES[ANXIETY], NULL, TRUE)
              cu == update_user_problem(dbFile, rows, u, CUSTOM, Some(Rep("x", 10)), TRUE)
              co == update_user_contact_info(dbFile, rows, u, <<"a", "b">>, 10,
                                             <<"a", "b", "c">>, TRUE)
          IN /\ ex.ret = FALSE /\ ex.rows = rows
             /\ ad.ret = FALSE /\ ad.rows = rows
             /\ pr.ret = FALSE /\ pr.rows = rows
             /\ cu.ret = FALSE /\ cu.rows = rows
             /\ co.ret = FALSE /\ co.rows = rows
     /\ get_user_stats(dbFile, rows, TRUE).ret = NULL
     /\ export_users_to_excel(dbFile, rows, TRUE).ret
          = [filename |-> NULL, error |-> Some(ExceptionError)]
     /\ (last'.op \in {"handle_problem_selection", "handle_custom_problem_input",
                        "handle_phone_input"} /\ last'.ok /\ ~last'.wrote)
          => rows' = rows
     /\ (last'.op = "command_stats" /\ command_stats(ADMIN_ID, StatsCmd, TRUE))
          => (last'.reply = <<"stats failed">> /\ rows' = rows)
     /\ \A k \in BagToSet(tasks), fStats \in BOOLEAN :
          (last'.op = "command_export_2" /\ command_export_2(k, TRUE, fStats, TRUE))
            => (last'.reply = <<"export error", ExceptionError>> /\ rows' = rows)
    ]_vars

\* C25 witness: the operator was just told that the statistics failed, the
\* store holding a record
C25_Witness ==
  /\ last.op = "command_stats"
  /\ last.reply = <<"stats failed">>
  /\ dbFile = "ok"
  /\ rows # {}

\* the sum of the counts of a distribution list
RECURSIVE SumCounts(_)
SumCounts(d) == IF d = <<>> THEN 0 ELSE Head(d)[2] + SumCounts(Tail(d))

\* C26: in every reachable state the statistics' distribution by category is
\* in non-increasing order of count, names each stored category once and its
\* counts sum to the number of records whose category is set; the recent list
\* has at most 5 entries, all of them complete records (name, age and handle
\* set), in non-increasing order of createdAt.
C26_DistributionAndRecentList ==
  /\ \A d \in problems_distribution(rows) :
       /\ \A i \in 1..(Len(d) - 1) : d[i][2] >= d[i + 1][2]
       /\ \A i, j \in 1..Len(d) : d[i][1] = d[j][1] => i = j
       /\ SumCounts(d) = Cardinality({r \in rows : r.problem_segment # NULL})
  /\ \A q \in recent_requests(rows) :
       /\ Len(q) <= 5
       /\ \A i \in 1..Len(q) :
            q[i].real_name # NULL /\ q[i].age # NULL /\ q[i].phone # NULL
       /\ \A i \in 1..(Len(q) - 1) : q[i].created_at >= q[i + 1].created_at

\* C26 witness: the operator has asked for the statistics of a store that
\* holds six complete records and categories with different counts
C26_Witness ==
  /\ last.op = "command_stats"
  /\ last.reply = <<"stats", 6, 6>>
  /\ \E d \in problems_distribution(rows) : Len(d) >= 2 /\ d[1][2] > d[Len(d)][2]

\* C27: whenever a user is in ContactEntry, no handler run of the user
\* being under way, the transient progress holds a name of at least 2
\* characters and an age in [10,100], a name and then an age having been
\* accepted since the latest signup press; and no record holds the fallback
\* values of handle_phone_input: every stored age lies in [10,100] and no
\* stored name is the placeholder.
C27_ContactEntryHoldsAcceptedNameAndAge ==
  /\ \A u \in Racing.users :
       (fsmState[u] = FormPhone /\ Inflight(u) = {})
         => /\ fsmData[u].name # NULL
            /\ Len(Val(fsmData[u].name)) >= MinNameLen
            /\ fsmData[u].age # NULL
            /\ Val(fsmData[u].age) >= MinAge
            /\ Val(fsmData[u].age) <= MaxAge
            /\ \E i, j \in DOMAIN events :
                 i < j /\ events[i][1] = "name" /\ events[j][1] = "age"
  /\ \A r \in rows :
       /\ r.age # NULL => (Val(r.age) >= MinAge /\ Val(r.age) <= MaxAge)
       /\ r.real_name # Some(DefaultName)

\* the user ids that have a record in table tbl
StoredIds(tbl) == {r.user_id : r \in tbl}

\* C28: the set of user ids in the store grows only at a start event, and
\* only by the id of the user who sent it.  A problem write or a contact write
\* for a user who has no record (the store working) creates no record,
\* changes no record, and returns success to the handler.
C28_RecordsCreatedOnlyByStart ==
  [][/\ \A id \in StoredIds(rows') \ StoredIds(rows) :
          last'.op = "command_start" /\ last'.user = id
     /\ \A u \in UserIds :
          (/\ last'.op \in {"handle_problem_selection", "handle_custom_problem_input",
                             "handle_phone_input"}
           /\ last'.user = u
           /\ last'.ok
           /\ dbFile = "ok"
           /\ RowsOf(u) = {})
            => (rows' = rows /\ last'.wrote)
    ]_vars

\* C28 witness: the contact of a user who has no record was just written
\* with success, and the store holds another user's record and no more
C28_Witness ==
  /\ last.op = "handle_phone_input"
  /\ last.ok
  /\ last.wrote
  /\ RowsOf(last.user) = {}
  /\ rows # {}

\* the handler a command or a main-menu text is meant for
OwnHandler(t) ==
  CASE t = StartCmd -> "command_start"
    [] t = HelpCmd -> "command_help"
    [] t = TestCmd -> "command_test"
    [] t = StatsCmd -> "command_stats"
    [] t = ExportCmd -> "command_export"
    [] t = GuideText -> "handle_get_guide"
    [] t = SignupText -> "handle_direct_signup"
    [] t = AboutText -> "handle_about"

\* the problem and contact columns of the rows of user u in table tbl; a user
\* who has no row has none of them set
ProblemAndContact(tbl, u) ==
  IF \E r \in tbl : r.user_id = u
    THEN {<<r.problem_segment, r.custom_problem, r.real_name, r.age, r.phone>> :
            r \in {x \in tbl : x.user_id = u}}
    ELSE {<<NULL, NULL, NULL, NULL, NULL>>}

\* the step is the dispatch of text t, sent by user u
Dispatches(u, t) ==
  /\ last'.user = u
  /\ \/ last'.op = "command_start" /\ t = StartCmd
     \/ last'.op = "reply_only" /\ reply_only(u, t)
     \/ last'.op = "command_export" /\ command_export(u, t)
     \/ last'.op = "command_stats" /\ command_stats(u, t, FALSE)
     \/ last'.op = "handle_custom_problem_input" /\ handle_custom_problem_input(u, t, FALSE)
     \/ last'.op = "handle_name_input" /\ handle_name_input(u, t)
     \/ last'.op = "handle_age_input" /\ handle_age_input(u, t)
     \/ last'.op = "handle_phone_input" /\ handle_phone_input(u, t, FALSE)

\* C29: a command (start, help, test, stats, export) or a main-menu text sent
\* by a user who is in CustomProblemEntry, NameEntry, AgeEntry or ContactEntry
\* goes to its own handler and is not taken as the field's input: the
\* conversation state, the transient progress, the pending continuations and
\* the problem and contact fields of the user's record stay as they were.
C29_CommandsNotTakenAsInput ==
  [][\A u \in UserIds, t \in Commands \cup {StartCmd} :
       (fsmState[u] \in FormStates /\ Dispatches(u, t))
         => /\ Route(fsmState[u], t) = OwnHandler(t)
            /\ fsmState' = fsmState
            /\ fsmData' = fsmData
            /\ tasks' = tasks
            /\ ProblemAndContact(rows', u) = ProblemAndContact(rows, u)
    ]_vars

====
